---- MODULE Spec2Model ----
(***************************************************************************)
(* A model of filzl's ClientBuilder (src/filzl/client_interface/builder.py) *)
(* : the pre-flight validator, the sequential generators, the threaded      *)
(* javascript build, the naming of the built chunks and the useServer()     *)
(* hook that the generator emits.                                           *)
(***************************************************************************)
EXTENDS Integers, Sequences, FiniteSets, TLC

\* ------------------------------------------------------------------ bounds
\* Longest registry handed to validate_unique_paths on its own.
MaxControllers == 4
\* Controllers mounted on the application of a build run.
MaxMounted == 3
\* Build runs of one behaviour.
MaxRuns == 2
\* State updates handed to setServerState and not yet applied by React.
MaxPending == 2
\* Engines create_async_engine makes in one process.
MaxEngines == 3

\* ----------------------------------------------------------- input domains
ClassNames == { <<"A", "b">>, <<"A", "B">>, <<"b", "A">> }
ViewDirs == { "home", "detail" }
ViewFiles == { "page.tsx", "layout.tsx" }
ViewPaths == [parent : ViewDirs, file : ViewFiles]
CodeTokens == { "x", "y" }
RenderFields == { "count", "title" }
FieldValues == { 0, 1 }
PayloadValues == { 1 }
ViewRoot == "views"

VARIABLES
    controllers,      \* app.controllers: the registry, a sequence of controller ids
    class_name,       \* controller.__class__.__name__, per controller
    view_path,        \* controller.view_path, per controller
    disk,             \* the view paths that exist on disk
    pc,               \* where build() stands
    error,            \* the ValueError build() raised, if any
    runs,             \* build runs started
    server_files,     \* files written under the _server directories
    static_exists,    \* whether the _static directory exists
    static_files,     \* file name -> text, the _static directory
    thread,           \* per controller: the state of its spawn_builder thread
    bundle,           \* per controller: what bundle_javascript returned to its thread
    bundled_scripts,  \* controller.bundled_scripts, per controller
    nstarted,         \* threads started by the dispatch loop
    njoined,          \* threads joined by the join loop
    name_in,          \* two calls of spawn_builder: the class and the bundler's text
    name_out,         \* what each of the two calls named and wrote
    serverState,      \* the state of ServerProvider: global state key -> slice
    pending,          \* the updaters given to setServerState, not yet applied
    rendered,         \* the serverState the hooks read from the context at the last render
    last_call,        \* the last hook action the view called: its type and its key
    GLOBAL_ENGINE,    \* core.GLOBAL_ENGINE: (connection string, engine) in insertion order
    created,          \* engines made by create_async_engine so far: engine n is the n-th
    disposed,         \* the engines whose dispose() has run
    unregister,       \* where a running unregister_global_engine stands in its loop
    engine_result     \* how the last call of engine_from_config or unregister ended

regVars == <<controllers, class_name, view_path, disk>>
fsVars == <<server_files, static_exists, static_files>>
threadVars == <<thread, bundle, bundled_scripts, nstarted, njoined>>
buildVars == <<regVars, pc, error, runs, fsVars, threadVars>>
namingVars == <<name_in, name_out>>
hookVars == <<serverState, pending, rendered, last_call>>
engineVars == <<GLOBAL_ENGINE, created, disposed, unregister, engine_result>>
nonBuildVars == <<namingVars, hookVars, engineVars>>
vars == <<buildVars, namingVars, hookVars, engineVars>>

\* --------------------------------------------------------------- helpers
Range(s) == { s[i] : i \in 1..Len(s) }

RECURSIVE SeqSum(_)
SeqSum(s) == IF s = <<>> THEN 0 ELSE Head(s) + SeqSum(Tail(s))

\* ---------------------------------------------------- inflection.underscore
IsUpper(ch) == ch \in { "A", "B" }
IsLower(ch) == ch \in { "a", "b" }
ToLower(ch) == CASE ch = "A" -> "a" [] ch = "B" -> "b" [] OTHER -> ch
ToUpper(ch) == CASE ch = "a" -> "A" [] ch = "b" -> "B" [] OTHER -> ch

\* An underscore goes before position i: ([A-Z]+)([A-Z][a-z]) or ([a-z\d])([A-Z]).
BreakBefore(word, i) ==
    /\ i > 1
    /\ IsUpper(word[i])
    /\ \/ IsLower(word[i - 1])
       \/ IsUpper(word[i - 1]) /\ i < Len(word) /\ IsLower(word[i + 1])

RECURSIVE UnderscoreFrom(_, _)
UnderscoreFrom(word, i) ==
    IF i > Len(word) THEN <<>>
    ELSE (IF BreakBefore(word, i) THEN <<"_">> ELSE <<>>)
         \o <<ToLower(word[i])>> \o UnderscoreFrom(word, i + 1)

Underscore(word) == UnderscoreFrom(word, 1)

Upper(word) == [i \in 1..Len(word) |-> ToUpper(word[i])]

\* get_controller_global_state: HOME_CONTROLLER
GetControllerGlobalState(c) == Upper(Underscore(class_name[c]))

\* ------------------------------------------------------------- file names
NoName == [base |-> <<>>, hash |-> <<>>, ext |-> ""]
\* The name the bundler put in the sourceMappingURL comment of its output.
TmpMap(n) == [base |-> <<>>, hash |-> <<n>>, ext |-> "js.map"]

CodeLine(t) == [kind |-> "code", text |-> t, target |-> NoName]
RefLine(target) == [kind |-> "ref", text |-> "", target |-> target]
MapText == << [kind |-> "map", text |-> "", target |-> NoName] >>

\* What bundle_javascript may return as the script text.
BundlerOutputs ==
    { <<CodeLine(t), RefLine(TmpMap(n))>> : t \in CodeTokens, n \in 1..2 }

\* get_cleaned_js_contents: the text without its sourceMappingURL comment.
GetCleanedJsContents(contents) ==
    SelectSeq(contents, LAMBDA l : l.kind # "ref")

\* update_source_map_path: the sourceMappingURL comment points at new_path.
UpdateSourceMapPath(contents, new_path) ==
    [i \in 1..Len(contents) |->
        IF contents[i].kind = "ref" THEN RefLine(new_path) ELSE contents[i]]

TokenIndex(t) == CASE t = "x" -> 1 [] t = "y" -> 2 [] OTHER -> 0
LineCode(l) ==
    IF l.kind = "code" THEN TokenIndex(l.text)
    ELSE Cardinality(CodeTokens) + 1 + SeqSum(l.target.hash)

\* md5(...).hexdigest(), injective over the texts of the model.
Md5(text) == [i \in 1..Len(text) |-> LineCode(text[i])]

\* Faulty variant: the hash of the text as bundled, its comment included.
ContentHashRaw(contents) == Md5(contents)
\* content_hash = md5(get_cleaned_js_contents(contents).encode()).hexdigest()
ContentHash(contents) == Md5(GetCleanedJsContents(contents))

\* Faulty variant: a name that leaves the content hash out.
ScriptNameNoHash(cls, contents) ==
    [base |-> Underscore(cls), hash |-> <<>>, ext |-> "js"]
\* script_name = f"{controller_base}-{content_hash}.js"
ScriptName(cls, contents) ==
    [base |-> Underscore(cls), hash |-> ContentHash(contents), ext |-> "js"]

\* map_name = f"{script_name}.map"
MapName(script_name) == [script_name EXCEPT !.ext = "js.map"]

\* The script text as written: the comment rewritten to the new map name.
WrittenScript(cls, contents) ==
    UpdateSourceMapPath(contents, MapName(ScriptName(cls, contents)))

\* --------------------------------------------------------------- validator
ViewParent(c) == view_path[c].parent

\* view_counts[parent]: the controllers of one parent, in registration order.
ViewCounts(view) ==
    SelectSeq(controllers, LAMBDA c : ViewParent(c) = view)

\* The keys of view_counts in insertion order: each parent at its first controller.
RECURSIVE ViewOrderFrom(_)
ViewOrderFrom(i) ==
    IF i > Len(controllers) THEN <<>>
    ELSE (IF \E j \in 1..(i - 1) : ViewParent(controllers[j]) = ViewParent(controllers[i])
          THEN <<>> ELSE << ViewParent(controllers[i]) >>)
         \o ViewOrderFrom(i + 1)

\* Faulty variant: only the first duplicate view is kept.
DuplicateViewsFirstOnly ==
    LET all == SelectSeq(ViewOrderFrom(1), LAMBDA view : Len(ViewCounts(view)) > 1)
    IN  IF all = <<>> THEN <<>> ELSE << Head(all) >>
\* duplicate_views: the parents with more than one controller.
DuplicateViews ==
    SelectSeq(ViewOrderFrom(1), LAMBDA view : Len(ViewCounts(view)) > 1)

RECURSIVE DuplicateLines(_)
\* One line "  {view}: {controller}" per controller of every duplicate view.
DuplicateLines(views) ==
    IF views = <<>> THEN <<>>
    ELSE [i \in 1..Len(ViewCounts(Head(views))) |->
            [view |-> Head(views), controller |-> ViewCounts(Head(views))[i]]]
         \o DuplicateLines(Tail(views))

\* Validation 2: the first controller, in registration order, whose path is missing.
MissingIndices == { i \in 1..Len(controllers) : view_path[controllers[i]] \notin disk }
FirstMissing == controllers[CHOOSE i \in MissingIndices : \A j \in MissingIndices : i <= j]

NoError == [kind |-> "none", lines |-> <<>>]

\* validate_unique_paths: the ValueError it raises, or NoError.
ValidateUniquePaths ==
    IF DuplicateViews # <<>>
    THEN [kind |-> "duplicate", lines |-> DuplicateLines(DuplicateViews)]
    ELSE IF MissingIndices # {}
    THEN [kind |-> "missing",
          lines |-> << [view |-> ViewParent(FirstMissing), controller |-> FirstMissing] >>]
    ELSE NoError

\* ------------------------------------------------------------------ state
Controllers == 1..MaxControllers
Mountable == 1..MaxMounted

\* A thread is none (not started), started, bundled, script_written,
\* map_written, done, or crashed (ended by an exception).
Terminated(c) == thread[c] \in { "done", "crashed" }
Running(c) == thread[c] \in { "started", "bundled", "script_written", "map_written" }

\* The sequences of distinct controllers drawn from a set.
RECURSIVE Registries(_)
Registries(S) ==
    { <<>> } \cup UNION { { <<c>> \o r : r \in Registries(S \ {c}) } : c \in S }

DefaultPath == [parent |-> "home", file |-> "page.tsx"]

\* ----------------------------------------------------- the useServer() hook
Undefined == [tag |-> "undefined", fields |-> << >>]
Null == [tag |-> "null", fields |-> << >>]
Object(fields) == [tag |-> "object", fields |-> fields]

\* Partial<RenderModel>: some of the fields of the render model.
Payloads == UNION { [D -> PayloadValues] : D \in SUBSET RenderFields }
\* A slice is a whole render model, or null, or undefined.
Slices == { Object(f) : f \in [RenderFields -> FieldValues] } \cup { Null, Undefined }

NoCall == [action_type |-> "none", key |-> << >>]

InitBuildIdle ==
    /\ pc = "idle"
    /\ error = NoError
    /\ runs = 0
    /\ server_files = {}
    /\ static_exists = FALSE
    /\ static_files = << >>
    /\ thread = [c \in Controllers |-> "none"]
    /\ bundle = [c \in Controllers |-> <<>>]
    /\ bundled_scripts = [c \in Controllers |-> <<>>]
    /\ nstarted = 0
    /\ njoined = 0

InitNamingIdle ==
    /\ name_in = << >>
    /\ name_out = << >>

InitHookIdle ==
    /\ serverState = << >>
    /\ pending = << >>
    /\ rendered = serverState
    /\ last_call = NoCall

\* GLOBAL_ENGINE: dict[str, AsyncEngine] = {}
NoUnregister == [pc |-> "idle", used |-> 0, pos |-> 0, engine |-> 0]
NoEngineCall ==
    [call |-> "none", uri |-> "", force_new |-> FALSE, outcome |-> "none", engine |-> 0]
InitEngine ==
    /\ GLOBAL_ENGINE = << >>
    /\ created = 0
    /\ disposed = {}
    /\ unregister = NoUnregister
    /\ engine_result = NoEngineCall

InitRest ==
    /\ InitBuildIdle
    /\ InitNamingIdle
    /\ InitHookIdle
    /\ InitEngine

\* The controllers of the mounted application: Ab at home/page.tsx, AB at
\* detail/page.tsx, bA at home/layout.tsx, then Ab at detail/layout.tsx, ...
MountedClass(c) ==
    CASE c % 3 = 1 -> <<"A", "b">> [] c % 3 = 2 -> <<"A", "B">> [] OTHER -> <<"b", "A">>
MountedPath(c) ==
    [parent |-> IF c % 2 = 1 THEN "home" ELSE "detail",
     file |-> IF c <= 2 THEN "page.tsx" ELSE "layout.tsx"]

Init ==
    /\ class_name = [c \in Controllers |-> MountedClass(c)]
    /\ view_path = [c \in Controllers |-> MountedPath(c)]
    /\ \E missing \in SUBSET { view_path[c] : c \in Mountable } :
          /\ Cardinality(missing) <= 1
          /\ disk = { view_path[c] : c \in Mountable } \ missing
    /\ controllers = <<>>
    /\ InitRest

\* ---------------------------------------------------------------- build()
ManagedCodeFile(dir, name) == [dir |-> dir, name |-> name]

\* Between two build runs a controller is registered with the application.
Mount(c) ==
    /\ pc \in { "idle", "done", "failed" }
    /\ runs < MaxRuns
    /\ c \notin Range(controllers)
    /\ controllers' = Append(controllers, c)
    /\ pc' = "idle"
    /\ UNCHANGED <<nonBuildVars, class_name, view_path, disk, error, runs, fsVars, threadVars>>

\* Between two build runs a controller is taken out of the application.
Unmount(c) ==
    /\ pc \in { "idle", "done", "failed" }
    /\ runs < MaxRuns
    /\ c \in Range(controllers)
    /\ controllers' = SelectSeq(controllers, LAMBDA d : d # c)
    /\ pc' = "idle"
    /\ UNCHANGED <<nonBuildVars, class_name, view_path, disk, error, runs, fsVars, threadVars>>

\* Faulty variant: generate_static_files runs before the validator.
BuildGeneratesFirst ==
    /\ pc \in { "idle", "done", "failed" }
    /\ runs < MaxRuns
    /\ runs' = runs + 1
    /\ error' = ValidateUniquePaths
    /\ server_files' = server_files \cup { ManagedCodeFile(ViewRoot, "api.ts") }
    /\ pc' = IF ValidateUniquePaths = NoError THEN "generate_model_definitions" ELSE "failed"
    /\ UNCHANGED <<nonBuildVars, regVars, static_exists, static_files, threadVars>>
\* build() up to the return of validate_unique_paths.
Build ==
    /\ pc \in { "idle", "done", "failed" }
    /\ runs < MaxRuns
    /\ runs' = runs + 1
    /\ error' = ValidateUniquePaths
    /\ pc' = IF ValidateUniquePaths = NoError THEN "generate_static_files" ELSE "failed"
    /\ UNCHANGED <<nonBuildVars, regVars, fsVars, threadVars>>

GenerateStaticFiles ==
    /\ pc = "generate_static_files"
    /\ server_files' = server_files \cup { ManagedCodeFile(ViewRoot, "api.ts") }
    /\ pc' = "generate_model_definitions"
    /\ UNCHANGED <<nonBuildVars, regVars, error, runs, static_exists, static_files, threadVars>>

\* One file of that name in the _server directory of every controller's view.
PerControllerFiles(name) ==
    { ManagedCodeFile(ViewParent(c), name) : c \in Range(controllers) }

GenerateModelDefinitions ==
    /\ pc = "generate_model_definitions"
    /\ server_files' = server_files \cup PerControllerFiles("models.ts")
    /\ pc' = "generate_action_definitions"
    /\ UNCHANGED <<nonBuildVars, regVars, error, runs, static_exists, static_files, threadVars>>

GenerateActionDefinitions ==
    /\ pc = "generate_action_definitions"
    /\ server_files' = server_files \cup PerControllerFiles("actions.ts")
    /\ pc' = "generate_global_model_imports"
    /\ UNCHANGED <<nonBuildVars, regVars, error, runs, static_exists, static_files, threadVars>>

GenerateGlobalModelImports ==
    /\ pc = "generate_global_model_imports"
    /\ server_files' = server_files \cup { ManagedCodeFile(ViewRoot, "models.ts") }
    /\ pc' = "generate_server_provider"
    /\ UNCHANGED <<nonBuildVars, regVars, error, runs, static_exists, static_files, threadVars>>

GenerateServerProvider ==
    /\ pc = "generate_server_provider"
    /\ server_files' = server_files \cup { ManagedCodeFile(ViewRoot, "server.tsx") }
    /\ pc' = "generate_view_servers"
    /\ UNCHANGED <<nonBuildVars, regVars, error, runs, static_exists, static_files, threadVars>>

GenerateViewServers ==
    /\ pc = "generate_view_servers"
    /\ server_files' = server_files \cup PerControllerFiles("useServer.ts")
    /\ pc' = "get_managed_static_dir"
    /\ UNCHANGED <<nonBuildVars, regVars, error, runs, static_exists, static_files, threadVars>>

\* ------------------------------------------------ build_javascript_chunks()
\* static_dir = self.get_managed_static_dir(self.view_root): mkdir(exist_ok=True)
GetManagedStaticDir ==
    /\ pc = "get_managed_static_dir"
    /\ static_exists' = TRUE
    /\ pc' = "rmtree"
    /\ UNCHANGED <<nonBuildVars, regVars, error, runs, server_files, static_files, threadVars>>

\* Faulty variant: the directory is not removed.
RmtreeKeepsFiles ==
    /\ pc = "rmtree"
    /\ pc' = "mkdir"
    /\ UNCHANGED <<nonBuildVars, regVars, error, runs, fsVars, threadVars>>
\* if static_dir.exists(): rmtree(static_dir)
Rmtree ==
    /\ pc = "rmtree"
    /\ static_exists' = FALSE
    /\ static_files' = << >>
    /\ pc' = "mkdir"
    /\ UNCHANGED <<nonBuildVars, regVars, error, runs, server_files, threadVars>>

\* static_dir.mkdir(parents=True); threads = []
Mkdir ==
    /\ pc = "mkdir"
    /\ static_exists' = TRUE
    /\ thread' = [c \in Controllers |-> "none"]
    /\ bundle' = [c \in Controllers |-> <<>>]
    /\ nstarted' = 0
    /\ njoined' = 0
    /\ pc' = "dispatch"
    /\ UNCHANGED <<nonBuildVars, regVars, error, runs, server_files, static_files, bundled_scripts>>

\* Faulty variant: threads are started before the directory is cleared.
DispatchOpenEarly == pc \in { "rmtree", "mkdir", "dispatch" }
\* The dispatch loop runs after the directory is cleared and made again.
DispatchOpen == pc = "dispatch"

\* thread = Thread(target=spawn_builder, args=(controller,)); thread.start()
ThreadStart ==
    /\ DispatchOpen
    /\ nstarted < Len(controllers)
    /\ thread' = [thread EXCEPT ![controllers[nstarted + 1]] = "started"]
    /\ nstarted' = nstarted + 1
    /\ UNCHANGED <<nonBuildVars, regVars, pc, error, runs, fsVars, bundle, bundled_scripts, njoined>>

\* The for loop over app.controllers is exhausted.
DispatchEnd ==
    /\ DispatchOpen
    /\ nstarted = Len(controllers)
    /\ pc' = "join"
    /\ UNCHANGED <<nonBuildVars, regVars, error, runs, fsVars, threadVars>>

\* Faulty variant: join does not wait for the thread.
JoinReturnsAtOnce(c) == TRUE
\* thread.join() returns once the thread has ended, normally or by an exception.
JoinReturns(c) == Terminated(c)

ThreadJoin ==
    /\ pc = "join"
    /\ njoined < Len(controllers)
    /\ JoinReturns(controllers[njoined + 1])
    /\ njoined' = njoined + 1
    /\ UNCHANGED <<nonBuildVars, regVars, pc, error, runs, fsVars, thread, bundle, bundled_scripts, nstarted>>

\* build_javascript_chunks, and with it build(), returns.
BuildReturn ==
    /\ pc = "join"
    /\ njoined = Len(controllers)
    /\ pc' = "done"
    /\ UNCHANGED <<nonBuildVars, regVars, error, runs, fsVars, threadVars>>

\* ----------------------------------------------------------- spawn_builder
\* contents, map_contents = bundle_javascript(controller.view_path, self.view_root)
BundleJavascript(c) ==
    /\ thread[c] = "started"
    /\ \E contents \in BundlerOutputs :
          /\ bundle' = [bundle EXCEPT ![c] = contents]
          /\ thread' = [thread EXCEPT ![c] = "bundled"]
    /\ UNCHANGED <<nonBuildVars, regVars, pc, error, runs, fsVars, bundled_scripts, nstarted, njoined>>

\* bundle_javascript raises: the exception ends the thread, and only the thread.
BundleFails(c) ==
    /\ thread[c] = "started"
    /\ thread' = [thread EXCEPT ![c] = "crashed"]
    /\ UNCHANGED <<nonBuildVars, regVars, pc, error, runs, fsVars, bundle, bundled_scripts, nstarted, njoined>>

WriteText(files, name, text) ==
    [n \in DOMAIN files \cup { name } |-> IF n = name THEN text ELSE files[n]]

\* contents = update_source_map_path(contents, map_name)
\* (static_dir / script_name).write_text(contents)
WriteScript(c) ==
    /\ thread[c] = "bundled"
    /\ static_exists
    /\ static_files' = WriteText(static_files, ScriptName(class_name[c], bundle[c]),
                                 WrittenScript(class_name[c], bundle[c]))
    /\ bundle' = [bundle EXCEPT ![c] = WrittenScript(class_name[c], bundle[c])]
    /\ thread' = [thread EXCEPT ![c] = "script_written"]
    /\ UNCHANGED <<nonBuildVars, regVars, pc, error, runs, server_files, static_exists,
                   bundled_scripts, nstarted, njoined>>

\* (static_dir / map_name).write_text(map_contents)
WriteMap(c) ==
    /\ thread[c] = "script_written"
    /\ static_exists
    /\ static_files' = WriteText(static_files,
                                 MapName(ScriptName(class_name[c], bundle[c])), MapText)
    /\ thread' = [thread EXCEPT ![c] = "map_written"]
    /\ UNCHANGED <<nonBuildVars, regVars, pc, error, runs, server_files, static_exists, bundle,
                   bundled_scripts, nstarted, njoined>>

\* Faulty variant: the name is appended before the files are written.
AppendScriptEarly(c) ==
    /\ thread[c] = "bundled"
    /\ bundled_scripts' = [bundled_scripts EXCEPT
            ![c] = Append(@, ScriptName(class_name[c], bundle[c]))]
    /\ thread' = [thread EXCEPT ![c] = "done"]
    /\ bundle' = [bundle EXCEPT ![c] = <<>>]
    /\ UNCHANGED <<nonBuildVars, regVars, pc, error, runs, fsVars, nstarted, njoined>>
\* controller.bundled_scripts.append(script_name)
AppendScript(c) ==
    /\ thread[c] = "map_written"
    /\ bundled_scripts' = [bundled_scripts EXCEPT
            ![c] = Append(@, ScriptName(class_name[c], bundle[c]))]
    /\ thread' = [thread EXCEPT ![c] = "done"]
    /\ bundle' = [bundle EXCEPT ![c] = <<>>]
    /\ UNCHANGED <<nonBuildVars, regVars, pc, error, runs, fsVars, nstarted, njoined>>

SpawnBuilder(c) ==
    \/ BundleJavascript(c)
    \/ BundleFails(c)
    \/ WriteScript(c)
    \/ WriteMap(c)
    \/ AppendScript(c)

Next ==
    \/ \E c \in Mountable : Mount(c) \/ Unmount(c)
    \/ Build
    \/ GenerateStaticFiles
    \/ GenerateModelDefinitions
    \/ GenerateActionDefinitions
    \/ GenerateGlobalModelImports
    \/ GenerateServerProvider
    \/ GenerateViewServers
    \/ GetManagedStaticDir
    \/ Rmtree
    \/ Mkdir
    \/ ThreadStart
    \/ DispatchEnd
    \/ ThreadJoin
    \/ BuildReturn
    \/ \E c \in Controllers : SpawnBuilder(c)

Spec == Init /\ [][Next]_vars

\* ------------------------------------------- validate_unique_paths alone
\* Any registry of up to MaxControllers controllers, at any view paths, any of
\* which may be missing from disk.
InitValidate ==
    /\ \E n \in 0..MaxControllers :
          /\ controllers = [i \in 1..n |-> i]
          /\ view_path \in [Controllers -> ViewPaths]
          /\ \A c \in Controllers : c > n => view_path[c] = DefaultPath
          /\ disk \in SUBSET { view_path[c] : c \in 1..n }
    /\ class_name = [c \in Controllers |-> MountedClass(c)]
    /\ InitRest

SpecValidate == InitValidate /\ [][Build]_vars

\* ------------------------------------------------ the generated useServer()
GlobalStateKeys == { GetControllerGlobalState(c) : c \in Range(controllers) }

\* server_state_lines: one field "KEY?: ..." of ServerState per controller, in
\* registration order.
ServerStateLines ==
    [i \in 1..Len(controllers) |-> GetControllerGlobalState(controllers[i])]

\* The hooks of a registry that build() accepted.
\* useState<ServerState>({ KEY: GLOBAL_STATE[KEY], ... }): every key is there, and
\* the slices of the views that are not active are null or undefined.
InitHook ==
    /\ class_name = [c \in Controllers |-> MountedClass(c)]
    /\ view_path = [c \in Controllers |-> MountedPath(c)]
    /\ disk = { view_path[c] : c \in Mountable }
    /\ controllers \in Registries(Mountable) \ { << >> }
    /\ ValidateUniquePaths = NoError
    /\ serverState \in [GlobalStateKeys -> Slices]
    /\ pending = << >>
    /\ rendered = serverState
    /\ last_call = NoCall
    /\ InitBuildIdle
    /\ InitNamingIdle
    /\ InitEngine

\* Faulty variant: { ...payload, ...state.KEY }
MergeOldWins(old, payload) ==
    [f \in DOMAIN old \cup DOMAIN payload |->
        IF f \in DOMAIN old THEN old[f] ELSE payload[f]]
\* { ...state.KEY, ...payload }
Merge(old, payload) ==
    [f \in DOMAIN old \cup DOMAIN payload |->
        IF f \in DOMAIN payload THEN payload[f] ELSE old[f]]

\* state.KEY: undefined when the state has no such key.
Lookup(state, key) == IF key \in DOMAIN state THEN state[key] ELSE Undefined

\* Faulty variant: the slice is merged without the check that it is defined.
UpdaterUnguarded(key, payload, state) ==
    [k \in DOMAIN state \cup { key } |->
        IF k = key THEN Object(Merge(Lookup(state, key).fields, payload)) ELSE state[k]]
\* (state) => ({ ...state, KEY: state.KEY ? { ...state.KEY, ...payload } : undefined })
Updater(key, payload, state) ==
    [k \in DOMAIN state \cup { key } |->
        IF k = key
        THEN (IF Lookup(state, key).tag = "object"
              THEN Object(Merge(Lookup(state, key).fields, payload))
              ELSE Undefined)
        ELSE state[k]]

\* The wrapper useServer() returns for an action of that type.
HookWrapper(action_type) ==
    IF action_type = "SIDEEFFECT" THEN "applySideEffect" ELSE "direct"

\* The view calls an action of controller c through the hook, and the server
\* answers with result. applySideEffect hands the result to setControllerState,
\* which hands its updater to setServerState.
CallAction(c, action_type, result) ==
    /\ last_call' = [action_type |-> action_type, key |-> GetControllerGlobalState(c)]
    /\ IF HookWrapper(action_type) = "applySideEffect"
       THEN /\ Len(pending) < MaxPending
            /\ pending' = Append(pending,
                    [key |-> GetControllerGlobalState(c), payload |-> result])
       ELSE pending' = pending
    /\ UNCHANGED <<buildVars, namingVars, engineVars, serverState, rendered>>

\* Faulty variant: the updater is given the state of the last render, as if
\* setControllerState had merged into the serverState of its closure.
PrevStateOfClosure == rendered
\* setServerState((state) => ...): the updater is given the state as it is
\* when React applies it.
PrevState == serverState

\* React applies the oldest updater; when no updater is left, the provider
\* renders again and the hooks read the new state.
ApplyUpdate ==
    /\ pending # << >>
    /\ serverState' = Updater(Head(pending).key, Head(pending).payload, PrevState)
    /\ pending' = Tail(pending)
    /\ rendered' = IF Tail(pending) = << >> THEN serverState' ELSE rendered
    /\ UNCHANGED <<buildVars, namingVars, engineVars, last_call>>

NextHook ==
    \/ \E c \in Range(controllers), t \in { "SIDEEFFECT", "PASSTHROUGH" }, r \in Payloads :
          CallAction(c, t, r)
    \/ ApplyUpdate

SpecHook == InitHook /\ [][NextHook]_vars

\* ------------------------------------------- the process-wide engine cache
\* str(config.SQLALCHEMY_DATABASE_URI) of the configs the process is given;
\* NoUri stands for a config without one.
Uris == { "db_a", "db_b" }
NoUri == ""

\* str(uri) in GLOBAL_ENGINE
Cached(uri) == \E i \in 1..Len(GLOBAL_ENGINE) : GLOBAL_ENGINE[i].uri = uri
\* GLOBAL_ENGINE[str(uri)]
EngineOf(uri) ==
    GLOBAL_ENGINE[CHOOSE i \in 1..Len(GLOBAL_ENGINE) : GLOBAL_ENGINE[i].uri = uri].engine
\* GLOBAL_ENGINE[str(uri)] = engine: a key the dict has keeps its place, a new
\* key goes to the end.
SetItem(dict, uri, engine) ==
    IF \E i \in 1..Len(dict) : dict[i].uri = uri
    THEN [i \in 1..Len(dict) |->
            IF dict[i].uri = uri THEN [uri |-> uri, engine |-> engine] ELSE dict[i]]
    ELSE Append(dict, [uri |-> uri, engine |-> engine])

\* if force_new or str(config.SQLALCHEMY_DATABASE_URI) not in GLOBAL_ENGINE
MustCreate(uri, force_new) == force_new \/ ~Cached(uri)

\* How a call of engine_from_config ended: with the engine it returned, or
\* with the RuntimeError it raised.
Returned(uri, force_new, outcome, engine) ==
    [call |-> "engine_from_config", uri |-> uri, force_new |-> force_new,
     outcome |-> outcome, engine |-> engine]
\* How a call of unregister_global_engine ended.
Unregistered(outcome) ==
    [call |-> "unregister_global_engine", uri |-> "", force_new |-> FALSE,
     outcome |-> outcome, engine |-> 0]

\* engine_from_config(config, force_new)
EngineFromConfig(uri, force_new) ==
    /\ IF uri = NoUri
       THEN /\ engine_result' = Returned(uri, force_new, "RuntimeError", 0)
            /\ UNCHANGED <<GLOBAL_ENGINE, created>>
       ELSE IF MustCreate(uri, force_new)
       THEN /\ created < MaxEngines
            /\ created' = created + 1
            /\ GLOBAL_ENGINE' = SetItem(GLOBAL_ENGINE, uri, created + 1)
            /\ engine_result' = Returned(uri, force_new, "returned", created + 1)
       ELSE /\ engine_result' = Returned(uri, force_new, "returned", EngineOf(uri))
            /\ UNCHANGED <<GLOBAL_ENGINE, created>>
    /\ UNCHANGED <<buildVars, namingVars, hookVars, disposed, unregister>>

\* The for loop of unregister_global_engine asks the iterator over
\* GLOBAL_ENGINE.values() for its next value, having had pos values: the dict
\* has changed size since the loop began (RuntimeError), or the values are
\* exhausted (GLOBAL_ENGINE = {} and return), or the next engine's dispose()
\* is awaited.
IterNext(used, pos) ==
    IF used # Len(GLOBAL_ENGINE)
    THEN /\ unregister' = NoUnregister
         /\ engine_result' = Unregistered("RuntimeError")
         /\ UNCHANGED GLOBAL_ENGINE
    ELSE IF pos >= Len(GLOBAL_ENGINE)
    THEN /\ unregister' = NoUnregister
         /\ engine_result' = Unregistered("returned")
         /\ GLOBAL_ENGINE' = << >>
    ELSE /\ unregister' = [pc |-> "dispose", used |-> used, pos |-> pos + 1,
                            engine |-> GLOBAL_ENGINE[pos + 1].engine]
         /\ UNCHANGED <<GLOBAL_ENGINE, engine_result>>

\* unregister_global_engine() up to its first await, or to its return when
\* the cache is empty.
UnregisterGlobalEngine ==
    /\ unregister.pc = "idle"
    /\ IterNext(Len(GLOBAL_ENGINE), 0)
    /\ UNCHANGED <<buildVars, namingVars, hookVars, created, disposed>>

\* await engine.dispose() returns, and the loop goes on.
DisposeReturns ==
    /\ unregister.pc = "dispose"
    /\ disposed' = disposed \cup { unregister.engine }
    /\ IterNext(unregister.used, unregister.pos)
    /\ UNCHANGED <<buildVars, namingVars, hookVars, created>>

NextEngine ==
    \/ \E uri \in Uris \cup { NoUri }, force_new \in BOOLEAN : EngineFromConfig(uri, force_new)
    \/ UnregisterGlobalEngine
    \/ DisposeReturns

\* The process starts with the controllers of the mounted application and an
\* empty cache.
InitEngineSpec ==
    /\ class_name = [c \in Controllers |-> MountedClass(c)]
    /\ view_path = [c \in Controllers |-> MountedPath(c)]
    /\ disk = { view_path[c] : c \in Mountable }
    /\ controllers = << >>
    /\ InitRest

SpecEngine == InitEngineSpec /\ [][NextEngine]_vars

\* ------------------------------------------------------------------ claims
Last(s) == s[Len(s)]

\* The controllers that share their parent view directory with another one.
Offenders ==
    { c \in Range(controllers) :
        \E d \in Range(controllers) : d # c /\ ViewParent(d) = ViewParent(c) }

\* C1: whenever two or more controllers of the registry share the parent
\* directory of their view_path, validate_unique_paths fails, and its error
\* lists every controller of every such group with the directory it shares.
C1_EveryOffenderListed ==
    (runs > 0 /\ Offenders # {}) =>
        /\ pc = "failed"
        /\ error.kind = "duplicate"
        /\ { error.lines[i].controller : i \in 1..Len(error.lines) } = Offenders
        /\ \A i \in 1..Len(error.lines) :
              error.lines[i].view = ViewParent(error.lines[i].controller)

\* Two groups of two controllers each, all four of them listed.
C1_Witness ==
    /\ pc = "failed"
    /\ error.kind = "duplicate"
    /\ Len(error.lines) = 4
    /\ Cardinality({ error.lines[i].view : i \in 1..Len(error.lines) }) = 2

\* C2: a build run whose registry has a duplicate parent view directory or a
\* missing view_path ends failed at once, and neither the step that fails nor
\* any step taken from the failed state writes a generated file, clears the
\* static directory, starts a thread or changes a bundled_scripts list.
C2_FailedBuildTouchesNothing ==
    [][ /\ (runs' = runs + 1 /\ (Offenders # {} \/ MissingIndices # {})) => pc' = "failed"
        /\ (pc = "failed" \/ pc' = "failed") =>
              /\ server_files' = server_files
              /\ static_exists' = static_exists
              /\ static_files' = static_files
              /\ thread' = thread
              /\ nstarted' = nstarted
              /\ bundled_scripts' = bundled_scripts ]_vars

\* A run failed on a duplicate directory after an earlier run had built: the
\* earlier run's files are still there.
C2_Witness ==
    /\ pc = "failed"
    /\ error.kind = "duplicate"
    /\ static_files # << >>
    /\ server_files # {}

\* A run failed on a missing view path.
C2_WitnessMissing ==
    /\ pc = "failed"
    /\ error.kind = "missing"

\* C3: build() never returns normally when the bundler failed in the thread
\* of one of the controllers.
C3_UnitFailureFailsBuild ==
    pc = "done" => \A c \in Range(controllers) : thread[c] # "crashed"

\* C4: when build_javascript_chunks has returned, no thread of the run is
\* still bundling or writing: each has ended.
C4_DoneOnlyAfterEveryUnitEnded ==
    pc = "done" =>
        /\ \A c \in Controllers : ~Running(c)
        /\ \A c \in Range(controllers) : Terminated(c)

\* A run of two controllers has returned.
C4_Witness ==
    /\ pc = "done"
    /\ Len(controllers) = 2
    /\ \A c \in Range(controllers) : thread[c] = "done"

\* C5: while a thread of the run is bundling or writing, the static directory
\* has been removed and made again already: it exists, and the run is past its
\* clearing steps, so the clear removes no file of this run.
C5_ClearedBeforeAnyUnit ==
    \A c \in Controllers :
        Running(c) => (static_exists /\ pc \in { "dispatch", "join" })

\* In a second run, one thread has written its script while another is bundling.
C5_Witness ==
    /\ runs = 2
    /\ \E c, d \in Range(controllers) :
          /\ thread[c] = "script_written"
          /\ thread[d] = "started"

\* The files a finished run of the registry leaves: the script last appended
\* to each controller's bundled_scripts, and its map.
ExpectedStatic ==
    UNION { { Last(bundled_scripts[c]), MapName(Last(bundled_scripts[c])) } :
            c \in { d \in Range(controllers) : bundled_scripts[d] # <<>> } }

\* C6: once a run has returned with every thread having finished its work, the
\* static directory holds the script and the map of each controller of the
\* registry and no other file, whatever earlier runs had left there.
C6_OnlyLatestArtifacts ==
    (pc = "done" /\ \A c \in Range(controllers) : thread[c] = "done") =>
        /\ \A c \in Range(controllers) : bundled_scripts[c] # <<>>
        /\ DOMAIN static_files = ExpectedStatic

\* A second run has finished for a registry that a controller built by the
\* first run has left, and that controller's files are gone.
C6_Witness ==
    /\ pc = "done"
    /\ runs = 2
    /\ controllers # <<>>
    /\ \A c \in Range(controllers) : thread[c] = "done"
    /\ \E c \in Controllers \ Range(controllers) :
          /\ bundled_scripts[c] # <<>>
          /\ Last(bundled_scripts[c]) \notin DOMAIN static_files

\* ------------------------------------------- the naming of spawn_builder alone
NoBuilt == [script |-> NoName, text |-> << >>]

\* Two calls of spawn_builder, of any class and with any text from the bundler.
InitNaming ==
    /\ name_in \in [1..2 -> [cls : ClassNames, contents : BundlerOutputs]]
    /\ name_out = [i \in 1..2 |-> NoBuilt]
    /\ controllers = << >>
    /\ class_name = [c \in Controllers |-> MountedClass(c)]
    /\ view_path = [c \in Controllers |-> MountedPath(c)]
    /\ disk = { view_path[c] : c \in Mountable }
    /\ InitBuildIdle
    /\ InitHookIdle
    /\ InitEngine

\* spawn_builder from the return of bundle_javascript to the write of the script.
NameAndWrite(i) ==
    /\ name_out[i] = NoBuilt
    /\ name_out' = [name_out EXCEPT ![i] =
            [script |-> ScriptName(name_in[i].cls, name_in[i].contents),
             text |-> WrittenScript(name_in[i].cls, name_in[i].contents)]]
    /\ UNCHANGED <<buildVars, hookVars, engineVars, name_in>>

\* The bundler hands a later build the text that an earlier build wrote.
Rebuild(i) ==
    /\ name_out[i] # NoBuilt
    /\ name_in[i].contents # name_out[i].text
    /\ name_in' = [name_in EXCEPT ![i].contents = name_out[i].text]
    /\ name_out' = [name_out EXCEPT ![i] = NoBuilt]
    /\ UNCHANGED <<buildVars, hookVars, engineVars>>

NextNaming == \E i \in 1..2 : NameAndWrite(i) \/ Rebuild(i)

SpecNaming == InitNaming /\ [][NextNaming]_vars

Built(i) == name_out[i] # NoBuilt
\* The text without any sourceMappingURL comment, told apart line by line.
Logic(contents) == { <<j, contents[j].text>> : j \in { k \in 1..Len(contents) : contents[k].kind = "code" } }

\* C7: of two builds, those of the same class whose bundled texts agree once
\* cleaned get the same script name, and those whose cleaned texts differ get
\* different script names; the name carries the underscored class name.
C7_NameIsFunctionOfSlugAndContent ==
    \A i, j \in DOMAIN name_out :
        (Built(i) /\ Built(j)) =>
            /\ name_out[i].script.base = Underscore(name_in[i].cls)
            /\ name_out[i].script.ext = "js"
            /\ (/\ name_in[i].cls = name_in[j].cls
                /\ Logic(name_in[i].contents) = Logic(name_in[j].contents))
                  => name_out[i].script = name_out[j].script
            /\ Logic(name_in[i].contents) # Logic(name_in[j].contents)
                  => name_out[i].script # name_out[j].script

\* Two builds of one class: the same text gave one name, and a build of a
\* different text gave another.
C7_Witness ==
    /\ Built(1) /\ Built(2)
    /\ name_in[1].cls = name_in[2].cls
    /\ Logic(name_in[1].contents) # Logic(name_in[2].contents)
    /\ name_out[1].script # name_out[2].script

\* C8: two bundled texts that differ only in their sourceMappingURL comment get
\* the same hash and script name, and the text as written, with the comment
\* pointing at the new map, hashes to the hash in its own name.
C8_HashIgnoresSourceMapComment ==
    \A i, j \in DOMAIN name_out :
        (Built(i) /\ Built(j)) =>
            /\ (/\ name_in[i].cls = name_in[j].cls
                /\ GetCleanedJsContents(name_in[i].contents)
                     = GetCleanedJsContents(name_in[j].contents))
                  => name_out[i].script = name_out[j].script
            /\ \A l \in Range(name_out[i].text) :
                  l.kind = "ref" => l.target = MapName(name_out[i].script)
            /\ Md5(GetCleanedJsContents(name_out[i].text)) = name_out[i].script.hash

\* Two builds whose texts differ in the comment only, one of them a rebuild of
\* a text written earlier.
C8_Witness ==
    /\ Built(1) /\ Built(2)
    /\ name_in[1].cls = name_in[2].cls
    /\ name_in[1].contents # name_in[2].contents
    /\ \E l \in Range(name_in[1].contents) :
          l.kind = "ref" /\ l.target = MapName(name_out[1].script)
    /\ name_out[1].script = name_out[2].script

\* A step in which React applies the oldest pending updater.
UpdateApplied == pending # << >> /\ pending' = Tail(pending)

\* C9: when the updater of setControllerState is applied while the slice of
\* its controller is null or undefined, the slice is null or undefined
\* afterwards (never an object made from the payload), and no other slice
\* changes.
C9_NullSliceStaysNull ==
    [][ (UpdateApplied /\ serverState[Head(pending).key].tag # "object") =>
            /\ serverState'[Head(pending).key].tag \in { "null", "undefined" }
            /\ \A k \in DOMAIN serverState \ { Head(pending).key } :
                  serverState'[k] = serverState[k] ]_vars

\* The update of a state-mutating call has been applied, and the slice of the
\* controller is not an object.
C9_Witness ==
    /\ last_call.action_type = "SIDEEFFECT"
    /\ pending = << >>
    /\ serverState[last_call.key].tag = "undefined"

\* C10: applied while the slice of its controller is an object, the updater
\* replaces the slice by the old slice with the payload's fields laid over it,
\* and every other controller's slice stays as it was; calling a plain action
\* changes no slice and hands nothing to setServerState.
C10_MergeTouchesOwnSliceOnly ==
    [][ /\ (UpdateApplied /\ serverState[Head(pending).key].tag = "object") =>
              LET u == Head(pending)
                  old == serverState[u.key].fields
                  new == serverState'[u.key]
              IN  /\ new.tag = "object"
                  /\ DOMAIN new.fields = DOMAIN old \cup DOMAIN u.payload
                  /\ \A f \in DOMAIN u.payload : new.fields[f] = u.payload[f]
                  /\ \A f \in DOMAIN old \ DOMAIN u.payload : new.fields[f] = old[f]
                  /\ \A c, d \in Range(controllers) :
                        (c # d /\ GetControllerGlobalState(c) = u.key) =>
                            serverState'[GetControllerGlobalState(d)]
                                = serverState[GetControllerGlobalState(d)]
        /\ (last_call' # last_call /\ last_call'.action_type = "PASSTHROUGH") =>
              (serverState' = serverState /\ pending' = pending) ]_vars

\* What does hold of C10, with the slices told apart by their global state
\* key: the slice under the key of the update is merged, the slices under the
\* other keys stay, and a plain action changes nothing.
C10_MergeTouchesOwnKeyOnly ==
    [][ /\ (UpdateApplied /\ serverState[Head(pending).key].tag = "object") =>
              LET u == Head(pending)
                  old == serverState[u.key].fields
                  new == serverState'[u.key]
              IN  /\ new.tag = "object"
                  /\ DOMAIN new.fields = DOMAIN old \cup DOMAIN u.payload
                  /\ \A f \in DOMAIN u.payload : new.fields[f] = u.payload[f]
                  /\ \A f \in DOMAIN old \ DOMAIN u.payload : new.fields[f] = old[f]
                  /\ \A k \in DOMAIN serverState \ { u.key } :
                        serverState'[k] = serverState[k]
                  /\ DOMAIN serverState' = DOMAIN serverState
        /\ (last_call' # last_call /\ last_call'.action_type = "PASSTHROUGH") =>
              (serverState' = serverState /\ pending' = pending) ]_vars

\* C11: whenever the bundled_scripts list of a controller changes, the step is
\* the last step of that controller's own spawn_builder thread, the list only
\* grows by one name at its end, the script and the map of that name are both
\* in the static directory by then, and the list of every other controller is
\* left as it was; a thread that runs to its end appends exactly once.
C11_AppendOnlyByOwnUnit ==
    [][ \A c \in Controllers :
          /\ (bundled_scripts'[c] # bundled_scripts[c]) =>
                /\ thread[c] = "map_written"
                /\ thread'[c] = "done"
                /\ Len(bundled_scripts'[c]) = Len(bundled_scripts[c]) + 1
                /\ SubSeq(bundled_scripts'[c], 1, Len(bundled_scripts[c])) = bundled_scripts[c]
                /\ Last(bundled_scripts'[c]) \in DOMAIN static_files
                /\ MapName(Last(bundled_scripts'[c])) \in DOMAIN static_files
                /\ \A d \in Controllers \ { c } : bundled_scripts'[d] = bundled_scripts[d]
          /\ (thread[c] # "done" /\ thread'[c] = "done") =>
                Len(bundled_scripts'[c]) = Len(bundled_scripts[c]) + 1 ]_vars

\* One unit has appended its name while another unit of the same run, which
\* has written both its files, has not yet appended.
C11_Witness ==
    \E c, d \in Range(controllers) :
        /\ c # d
        /\ thread[c] = "done"
        /\ bundled_scripts[c] # << >>
        /\ thread[d] = "map_written"
        /\ bundled_scripts[d] = << >>

\* The controllers whose view_path does not exist on disk.
MissingControllers == { controllers[i] : i \in MissingIndices }

\* C12: when validate_unique_paths fails on missing view paths, its error
\* names every controller of the registry whose view_path is missing, not only
\* the first one in registration order.
C12_EveryMissingPathListed ==
    (pc = "failed" /\ error.kind = "missing") =>
        { error.lines[i].controller : i \in 1..Len(error.lines) } = MissingControllers

\* C13: once validate_unique_paths has accepted the registry, the global state
\* keys of its controllers are pairwise distinct, so that ServerState has one
\* field of its own for every controller.
C13_GlobalStateKeysDistinct ==
    (pc \notin { "idle", "failed" }) =>
        \A i, j \in 1..Len(ServerStateLines) :
            i # j => ServerStateLines[i] # ServerStateLines[j]

\* The state once every updater of a queue has been applied, oldest first,
\* each to the state the one before it left.
RECURSIVE AfterAll(_, _)
AfterAll(queue, state) ==
    IF queue = << >> THEN state
    ELSE AfterAll(Tail(queue), Updater(Head(queue).key, Head(queue).payload, state))

\* C14: applying one of the queued updaters never changes what the state will
\* be once all of them are applied in turn; so when two results are queued, for
\* one controller or for two, the state after both is the second merge applied
\* to the first merge applied to the state before the first, and the first
\* update is not lost to a merge into the state of the last render.
C14_NoLostUpdate ==
    [][ UpdateApplied =>
            /\ AfterAll(pending', serverState') = AfterAll(pending, serverState)
            /\ (pending' = << >>) => (rendered' = AfterAll(pending, serverState)) ]_vars

\* The first of two queued updates has been applied and has changed the state,
\* no render has happened since, and the second, merged into the state of the
\* last render, would give another state than merged into the present one.
C14_Witness ==
    /\ Len(pending) = 1
    /\ serverState # rendered
    /\ AfterAll(pending, serverState) # AfterAll(pending, rendered)

\* The files the spawn_builder thread of a controller has written so far in
\* the present run.
UnitFiles(c) ==
    LET script == IF thread[c] = "done" THEN Last(bundled_scripts[c])
                  ELSE ScriptName(class_name[c], bundle[c])
    IN  CASE thread[c] = "script_written" -> { script }
          [] thread[c] \in { "map_written", "done" } -> { script, MapName(script) }
          [] OTHER -> {}

\* C15: in a run over a registry the validator accepted, the threads of two
\* different controllers never write a file of the same name into the static
\* directory.
C15_UnitsWriteDisjointFiles ==
    (pc \in { "dispatch", "join", "done" }) =>
        \A c, d \in Range(controllers) :
            c # d => UnitFiles(c) \cap UnitFiles(d) = {}

\* C17: when a build run has returned with every thread of the registry run to
\* its end, every name in the bundled_scripts list of every registered
\* controller is the name of a file in the static directory.
C17_BundledScriptsExist ==
    (pc = "done" /\ \A c \in Range(controllers) : thread[c] = "done") =>
        \A c \in Range(controllers) :
            \A i \in 1..Len(bundled_scripts[c]) :
                bundled_scripts[c][i] \in DOMAIN static_files

\* A step in which a call of engine_from_config ends.
ConfigCallEnds ==
    engine_result' # engine_result /\ engine_result'.call = "engine_from_config"
\* A step in which unregister_global_engine returns.
UnregisterReturns ==
    /\ engine_result' # engine_result
    /\ engine_result' = Unregistered("returned")

\* What C16 says of engine_from_config: the cache never holds two engines for
\* one connection string; the first call for a string makes an engine and
\* caches it; a later call without force_new returns the cached engine and
\* changes nothing; a config without a connection string raises RuntimeError
\* and leaves the cache as it was.
C16_CachePart ==
    [][ /\ \A i, j \in 1..Len(GLOBAL_ENGINE') :
              i # j => GLOBAL_ENGINE'[i].uri # GLOBAL_ENGINE'[j].uri
        /\ ConfigCallEnds =>
              LET r == engine_result'
              IN  /\ (r.uri = NoUri) =>
                        (r.outcome = "RuntimeError" /\ GLOBAL_ENGINE' = GLOBAL_ENGINE)
                  /\ (r.uri # NoUri /\ ~Cached(r.uri)) =>
                        /\ r.outcome = "returned"
                        /\ r.engine \notin { GLOBAL_ENGINE[i].engine : i \in 1..Len(GLOBAL_ENGINE) }
                        /\ r.engine \notin disposed
                        /\ GLOBAL_ENGINE' = Append(GLOBAL_ENGINE, [uri |-> r.uri, engine |-> r.engine])
                  /\ (r.uri # NoUri /\ Cached(r.uri) /\ ~r.force_new) =>
                        /\ r.outcome = "returned"
                        /\ r.engine = EngineOf(r.uri)
                        /\ GLOBAL_ENGINE' = GLOBAL_ENGINE ]_vars

\* C16: the cache holds at most one engine per connection string, made by the
\* first engine_from_config call for the string and returned as it is by later
\* calls without force_new; a config without a connection string raises
\* RuntimeError and leaves the cache as it was; and when
\* unregister_global_engine returns, the cache is empty and every engine that
\* was ever made, those replaced by a force_new call among them, is disposed.
C16_EngineCacheLifecycle ==
    [][ /\ \A i, j \in 1..Len(GLOBAL_ENGINE') :
              i # j => GLOBAL_ENGINE'[i].uri # GLOBAL_ENGINE'[j].uri
        /\ ConfigCallEnds =>
              LET r == engine_result'
              IN  /\ (r.uri = NoUri) =>
                        (r.outcome = "RuntimeError" /\ GLOBAL_ENGINE' = GLOBAL_ENGINE)
                  /\ (r.uri # NoUri /\ ~Cached(r.uri)) =>
                        /\ r.outcome = "returned"
                        /\ GLOBAL_ENGINE' = Append(GLOBAL_ENGINE, [uri |-> r.uri, engine |-> r.engine])
                  /\ (r.uri # NoUri /\ Cached(r.uri) /\ ~r.force_new) =>
                        /\ r.outcome = "returned"
                        /\ r.engine = EngineOf(r.uri)
                        /\ GLOBAL_ENGINE' = GLOBAL_ENGINE
        /\ UnregisterReturns =>
              /\ GLOBAL_ENGINE' = << >>
              /\ disposed' = 1..created' ]_vars

====
